---- MODULE Spec2Model ----
(***************************************************************************)
(* The chat server of rust_chat: the listener/dispatcher of                *)
(* server/src/main.rs and the per-connection event loop of                 *)
(* server/src/user_connection/mod.rs, with the shared user registry        *)
(* (connected_clients), the broadcast channel (tx / rx), the server        *)
(* command channel (server_commands / cmd_rx) and the atomic connection    *)
(* counter (active_connections).                                           *)
(*                                                                         *)
(* handlers.rs and rate_limiting.rs are not part of the sources at hand:   *)
(* MessageHandlers::process_message and RateLimiter follow sections 4.2    *)
(* and 4.3 of the specification.                                           *)
(*                                                                         *)
(* The frame codec of chat_shared/src/message.rs and the admin line parser *)
(* of server/src/input.rs are pure functions; SpecCodec and SpecParser     *)
(* apply them to inputs drawn from bounded sets.  SpecAdmin is the server  *)
(* together with its console and with failing accept() calls.  SpecLag and *)
(* SpecCommands give the connections the traffic that overruns a receiver  *)
(* of the broadcast and of the command channel, SpecLock takes handle_kick *)
(* and the cleanup one lock guard at a time, and SpecLive schedules the    *)
(* connection tasks fairly.                                                *)
(***************************************************************************)
EXTENDS Integers, Sequences, FiniteSets, TLC

\* ------------------------------------------------------------- bounds
\* Sockets the environment offers to accept(); their addresses are 1..NConn.
NConn == 3
\* The configured max_clients (CHAT_SERVER_MAX_CLIENTS).
MaxClients == 2
\* Inbound frames read from all sockets together.
MaxFrames == 3
\* /kick lines the admin console delivers.
MaxKicks == 1
\* RATE_LIMIT_MESSAGES and RATE_LIMIT_WINDOW (N and W of section 4.3), scaled.
RATE_LIMIT_MESSAGES == 2
RATE_LIMIT_WINDOW == 1
\* Entries of broadcast buffer per client (16 in ChatServer::new), scaled.
BufferPerClient == 1
\* Width of the connection counter in bits (64 for usize), scaled.
UsizeBits == 8

\* The clock runs far enough for one window to pass.
MaxTime == RATE_LIMIT_WINDOW + 1

Conns == 1..NConn
Names == {"alice", "bob"}
None == "None"
\* Origin of a frame the server itself composes (not a connection address).
Server == 0

VARIABLES
    phase,              \* per socket: Idle, Rejected, Active, Draining, Closed
    pending,            \* socket that passed the limit check, not yet counted
    active_connections, \* ChatServer.active_connections
    connected_clients,  \* ChatServer.connected_clients, the user registry
    chat_name,          \* UserConnection.chat_name
    rate_limiter,       \* UserConnection.rate_limiter
    rx,                 \* per connection: unread entries of the broadcast channel
    lagged,             \* per connection: broadcast entries were overwritten unread
    cmd_rx,             \* per connection: unread entries of the command channel
    cmd_lagged,         \* per connection: commands were overwritten unread
    socket,             \* per connection: frames written to its socket
    now,                \* the clock
    frames,             \* inbound frames read so far
    kicks,              \* /kick lines handled so far
    owner,              \* history: the connection whose frame inserted each name
    leaves,             \* history: names of the Leave messages each connection sent
    hub,                \* history: every entry sent on the broadcast channel, in order
    listening,          \* ChatServer::run is still in its loop
    admin_lines,        \* admin console lines handled so far (other than /kick)
    accept_errors,      \* accept() errors so far
    registry_lock,      \* the holders of the lock around connected_clients
    admin,              \* where handle_kick stands, and on which name
    codec,              \* the frame codec at work on one input
    parser              \* the admin line parser at work on one line

\* The listener's console side, and the two pure functions' inputs and results.
consoleVars == <<listening, admin_lines, accept_errors>>
pureVars == <<codec, parser>>

\* The registry's lock and the admin handler's position under it.
lockVars == <<registry_lock, admin>>

\* The state of the server proper.
serverVars == <<phase, pending, active_connections, connected_clients, chat_name,
                rate_limiter, rx, lagged, cmd_rx, cmd_lagged, socket, now, frames,
                kicks, owner, leaves, hub>>

vars == <<serverVars, lockVars, consoleVars, pureVars>>

\* ------------------------------------------------------------- messages
\* ChatMessage { msg_type, content }
Msg(t, content) == [msg_type |-> t, content |-> content]

\* ChatMessage::try_new: the payloads of the model are short, so the length
\* check passes and the message is built.
try_new(t, content) == Msg(t, content)

\* Frames a client can send.
InboundMsgs ==
    {Msg("ChatMessage", "hi"), Msg("Leave", "hi")}
        \cup {Msg("Join", n) : n \in Names}
        \cup {Msg("UserRename", n) : n \in Names}

KickNotice_Chat == try_new("ChatMessage", "You have been kicked by the server")

KickNotice == try_new("Error", "You have been kicked by the server")
RateLimitNotice == try_new("Error", "rate limit exceeded")
NameTakenNotice == try_new("Error", "name already taken")

\* ------------------------------------------------------------- counter
UsizeModulus == 2 ^ UsizeBits

\* AtomicUsize::fetch_add / fetch_sub wrap around.
fetch_add(v) == (v + 1) % UsizeModulus
fetch_sub(v) == (v - 1) % UsizeModulus

\* ------------------------------------------------------------- rate limiter
\* RateLimiter::new(max, window)
RateLimiter_new(max, window, t) ==
    [max_messages |-> max, window |-> window, start |-> t, count |-> 0]

\* One inbound frame at time t: a window that has passed is reset, then the
\* frame is counted.
RateLimiter_count(rl, t) ==
    LET r == IF t > rl.start + rl.window
             THEN [rl EXCEPT !.start = t, !.count = 0]
             ELSE rl
    IN [r EXCEPT !.count = @ + 1]

\* The frame just counted is over the limit.
RateLimiter_rejects(rl) == rl.count > rl.max_messages

UserConnection_new_Swapped(t) ==
    [chat_name |-> None,
     rate_limiter |-> RateLimiter_new(RATE_LIMIT_WINDOW, RATE_LIMIT_MESSAGES, t)]

\* UserConnection::new
UserConnection_new(t) ==
    [chat_name |-> None,
     rate_limiter |-> RateLimiter_new(RATE_LIMIT_MESSAGES, RATE_LIMIT_WINDOW, t)]

\* ------------------------------------------------------------- channels
\* broadcast::channel(max_clients * 16)
BroadcastCapacity == MaxClients * BufferPerClient

\* Connections whose handle() is running hold a receiver of both channels.
Subscribers == {c \in Conns : phase[c] \in {"Active", "Draining"}}

Publish_Front(queues, entry) ==
    [c \in Conns |-> IF c \in Subscribers THEN <<entry>> \o queues[c] ELSE queues[c]]

\* tx.send(entry): every receiver gets the entry; a receiver that already
\* holds a full buffer loses its oldest entry and will see Lagged.
Publish(queues, entry) ==
    [c \in Conns |->
        IF c \notin Subscribers THEN queues[c]
        ELSE IF Len(queues[c]) >= BroadcastCapacity
             THEN Append(Tail(queues[c]), entry)
             ELSE Append(queues[c], entry)]

PublishLag(queues) ==
    [c \in Conns |->
        lagged[c] \/ (c \in Subscribers /\ Len(queues[c]) >= BroadcastCapacity)]

\* broadcast::channel(100), the command channel (main.rs:35), scaled.
CommandCapacity == 1

\* server_commands.send(cmd): as tx.send, on the command channel.
PublishCommand(queues, cmd) ==
    [c \in Conns |->
        IF c \notin Subscribers THEN queues[c]
        ELSE IF Len(queues[c]) >= CommandCapacity
             THEN Append(Tail(queues[c]), cmd)
             ELSE Append(queues[c], cmd)]

PublishCommandLag(queues) ==
    [c \in Conns |->
        cmd_lagged[c] \/ (c \in Subscribers /\ Len(queues[c]) >= CommandCapacity)]

\* send_message_chunked(msg) when the write succeeds; origin is kept as history.
Written(c, msg, origin) == Append(socket[c], [msg |-> msg, src |-> origin])

\* Arc<RwLock<HashSet<String>>> (main.rs:19, 38): the connection holding the
\* lock exclusively, 0 when none does, and the number of shared holders.
Unlocked == [writer |-> 0, readers |-> 0]

\* The admin handler between commands.
Idle == [at |-> "idle", username |-> None]

\* Neither pure function has been given an input.
Resting == [stage |-> "rest"]

\* ChatServer::new and the start of run(): no connection, an empty registry,
\* a counter of zero.
ServerInit ==
    /\ phase = [c \in Conns |-> "Idle"]
    /\ pending = 0
    /\ active_connections = 0
    /\ connected_clients = {}
    /\ chat_name = [c \in Conns |-> None]
    /\ rate_limiter = [c \in Conns |-> RateLimiter_new(0, 0, 0)]
    /\ rx = [c \in Conns |-> <<>>]
    /\ lagged = [c \in Conns |-> FALSE]
    /\ cmd_rx = [c \in Conns |-> <<>>]
    /\ cmd_lagged = [c \in Conns |-> FALSE]
    /\ socket = [c \in Conns |-> <<>>]
    /\ now = 0
    /\ frames = 0
    /\ kicks = 0
    /\ owner = [n \in Names |-> 0]
    /\ leaves = [c \in Conns |-> <<>>]
    /\ hub = <<>>
    /\ listening = TRUE
    /\ admin_lines = 0
    /\ accept_errors = 0
    /\ registry_lock = Unlocked
    /\ admin = Idle

Init ==
    /\ ServerInit
    /\ codec = Resting
    /\ parser = Resting

\* ------------------------------------------------------------- listener
\* accept() hands out the sockets in the order of their addresses.
NextSocket ==
    CHOOSE c \in Conns : phase[c] = "Idle" /\ \A d \in Conns : phase[d] = "Idle" => c <= d

LimitReached_OffByOne(current, max) == current > max

\* main.rs:65  current_connections >= self.max_clients
LimitReached(current, max) == current >= max

\* main.rs:74  self.active_connections.fetch_add(1, Ordering::Relaxed)
ConnectionAdmitted(count) == fetch_add(count)

ConnectionDone_Forgotten(count) == count

\* main.rs:89  active_connections_clone.fetch_sub(1, Ordering::Relaxed)
ConnectionDone(count) == fetch_sub(count)

\* ChatServer::run, accept branch up to the limit check (main.rs:60-71): the
\* counter is loaded and compared; a socket over the limit is dropped.
AcceptCheck ==
    /\ listening
    /\ pending = 0
    /\ \E c \in Conns : phase[c] = "Idle"
    /\ LET c == NextSocket
           current_connections == active_connections
       IN IF LimitReached(current_connections, MaxClients)
          THEN /\ phase' = [phase EXCEPT ![c] = "Rejected"]
               /\ UNCHANGED pending
          ELSE /\ pending' = c
               /\ UNCHANGED phase
    /\ UNCHANGED <<active_connections, connected_clients, chat_name, rate_limiter,
                   rx, lagged, cmd_rx, socket, now, frames, kicks, owner, leaves>>
    /\ UNCHANGED <<hub, cmd_lagged, lockVars, consoleVars, pureVars>>

\* ChatServer::run, accept branch after the limit check (main.rs:73-91): the
\* counter is incremented, the connection is built and its task spawned; the
\* task subscribes to both channels when handle() starts (mod.rs:57-58).
AcceptSpawn ==
    /\ listening
    /\ pending # 0
    /\ LET c == pending
           conn == UserConnection_new(now)
       IN /\ active_connections' = ConnectionAdmitted(active_connections)
          /\ phase' = [phase EXCEPT ![c] = "Active"]
          /\ chat_name' = [chat_name EXCEPT ![c] = conn.chat_name]
          /\ rate_limiter' = [rate_limiter EXCEPT ![c] = conn.rate_limiter]
          /\ rx' = [rx EXCEPT ![c] = <<>>]
          /\ lagged' = [lagged EXCEPT ![c] = FALSE]
          /\ cmd_rx' = [cmd_rx EXCEPT ![c] = <<>>]
          /\ cmd_lagged' = [cmd_lagged EXCEPT ![c] = FALSE]
    /\ pending' = 0
    /\ UNCHANGED <<connected_clients, socket, now, frames, kicks, owner, leaves>>
    /\ UNCHANGED <<hub, lockVars, consoleVars, pureVars>>

contains_Always(clients, username) == TRUE

\* main.rs:152  clients.contains(&username)
contains(clients, username) == username \in clients

\* The live connection that holds a name, 0 when there is none.
HolderOf(name) ==
    IF \E c \in Subscribers : chat_name[c] = name
    THEN CHOOSE c \in Subscribers : chat_name[c] = name
    ELSE 0

\* ServerCommand::Kick(username) as handle_kick builds it (main.rs:154); each
\* command carries, as history, the connection that held the name then.
Kick(username) == [name |-> username, target |-> HolderOf(username)]

\* ChatServer::handle_kick (main.rs:150-161): the command is sent only when
\* the registry holds the name; the registry itself is not touched.
handle_kick(username) ==
    /\ kicks' = kicks + 1
    /\ IF contains(connected_clients, username)
       THEN /\ cmd_rx' = PublishCommand(cmd_rx, Kick(username))
            /\ cmd_lagged' = PublishCommandLag(cmd_rx)
       ELSE UNCHANGED <<cmd_rx, cmd_lagged>>
    /\ UNCHANGED <<phase, pending, active_connections, connected_clients, chat_name,
                   rate_limiter, rx, lagged, socket, now, frames, owner, leaves>>
    /\ UNCHANGED <<hub, lockVars, consoleVars, pureVars>>

\* Time passes.
Tick ==
    /\ now < MaxTime
    /\ now' = now + 1
    /\ UNCHANGED <<phase, pending, active_connections, connected_clients, chat_name,
                   rate_limiter, rx, lagged, cmd_rx, socket, frames, kicks, owner, leaves>>
    /\ UNCHANGED <<hub, cmd_lagged, lockVars, consoleVars, pureVars>>

\* ------------------------------------------------------------- connection
\* The state process_message works on: the registry, the connection's name,
\* the channel buffers, the connection's socket, and the Result it returns.
Outcome(c) ==
    [clients |-> connected_clients, name |-> chat_name[c], own |-> owner,
     queues |-> rx, lag |-> lagged, sock |-> socket[c], sent |-> hub, res |-> "Ok"]

\* An Error frame is written back and the error returned.
Answered(c, notice, err, write_ok) ==
    [Outcome(c) EXCEPT !.sock = IF write_ok THEN Written(c, notice, Server) ELSE @,
                       !.res = err]

\* ChatMessage: publish (message, own address) unchanged (section 4.2).
handle_chat(c, message) ==
    [Outcome(c) EXCEPT !.queues = Publish(rx, [msg |-> message, src |-> c]),
                       !.lag = PublishLag(rx),
                       !.sent = Append(@, [msg |-> message, src |-> c])]

\* Join: a taken name is answered with an Error frame and the name kept; a
\* free name is inserted into the registry and remembered (section 4.2).
handle_join(c, new, write_ok) ==
    IF new \in connected_clients
    THEN Answered(c, NameTakenNotice, "NameConflict", write_ok)
    ELSE [Outcome(c) EXCEPT !.clients = @ \cup {new},
                            !.name = new,
                            !.own = [@ EXCEPT ![new] = c]]

handle_rename_Unchecked(c, new, write_ok) ==
    IF chat_name[c] = None
    THEN Outcome(c)
    ELSE [Outcome(c) EXCEPT !.clients = (@ \ {chat_name[c]}) \cup {new},
                            !.name = new,
                            !.own = [@ EXCEPT ![chat_name[c]] = 0, ![new] = c]]

\* UserRename: inert without a display name; a taken name is answered with
\* an Error frame; otherwise the old name is removed and the new one
\* inserted under one exclusive lock (section 4.2).
handle_rename(c, new, write_ok) ==
    IF chat_name[c] = None
    THEN Outcome(c)
    ELSE IF new \in connected_clients
    THEN Answered(c, NameTakenNotice, "NameConflict", write_ok)
    ELSE [Outcome(c) EXCEPT !.clients = (@ \ {chat_name[c]}) \cup {new},
                            !.name = new,
                            !.own = [@ EXCEPT ![chat_name[c]] = 0, ![new] = c]]

\* MessageHandlers::process_message (sections 4.2 and 4.3): every frame is
\* rate limited first; a rejected frame is answered with an Error frame and
\* reaches neither the registry nor the broadcast channel.  rl is the
\* limiter after counting this frame.
process_message(c, message, rl, write_ok) ==
    IF RateLimiter_rejects(rl)
    THEN Answered(c, RateLimitNotice, "RateLimited", write_ok)
    ELSE CASE message.msg_type = "ChatMessage" -> handle_chat(c, message)
           [] message.msg_type = "Join" -> handle_join(c, message.content, write_ok)
           [] message.msg_type = "UserRename" -> handle_rename(c, message.content, write_ok)
           [] OTHER -> Outcome(c)

AfterProcessMessage_Break(res) == IF res = "Ok" THEN "Active" ELSE "Draining"

\* mod.rs:66-68: an Err of process_message is logged and the loop goes on.
AfterProcessMessage(res) == "Active"

\* handle(), branch 1 with Ok(msg) (mod.rs:63-69).
InboundFrame(c, message, write_ok) ==
    /\ phase[c] = "Active"
    /\ frames' = frames + 1
    /\ LET rl == RateLimiter_count(rate_limiter[c], now)
           r == process_message(c, message, rl, write_ok)
       IN /\ rate_limiter' = [rate_limiter EXCEPT ![c] = rl]
          /\ connected_clients' = r.clients
          /\ chat_name' = [chat_name EXCEPT ![c] = r.name]
          /\ owner' = r.own
          /\ rx' = r.queues
          /\ lagged' = r.lag
          /\ hub' = r.sent
          /\ socket' = [socket EXCEPT ![c] = r.sock]
          /\ phase' = [phase EXCEPT ![c] = AfterProcessMessage(r.res)]
    /\ UNCHANGED <<pending, active_connections, cmd_rx, now, kicks, leaves>>
    /\ UNCHANGED <<cmd_lagged, lockVars, consoleVars, pureVars>>

ReadFailed_EndsAll(c) ==
    /\ phase[c] = "Active"
    /\ phase' = [d \in Conns |-> IF phase[d] = "Active" THEN "Draining" ELSE phase[d]]
    /\ UNCHANGED <<pending, active_connections, connected_clients, chat_name,
                   rate_limiter, rx, lagged, cmd_rx, socket, now, frames, kicks,
                   owner, leaves, hub, cmd_lagged, lockVars, consoleVars, pureVars>>

ReadFailed_AfterExit(c) ==
    /\ phase[c] \in {"Active", "Closed"}
    /\ phase' = [phase EXCEPT ![c] = "Draining"]
    /\ UNCHANGED <<pending, active_connections, connected_clients, chat_name,
                   rate_limiter, rx, lagged, cmd_rx, socket, now, frames, kicks,
                   owner, leaves, hub, cmd_lagged, lockVars, consoleVars, pureVars>>

\* handle(), branch 1 with Err(IoError) or Err(Disconnect) (mod.rs:70-77).
ReadFailed(c) ==
    /\ phase[c] = "Active"
    /\ phase' = [phase EXCEPT ![c] = "Draining"]
    /\ UNCHANGED <<pending, active_connections, connected_clients, chat_name,
                   rate_limiter, rx, lagged, cmd_rx, socket, now, frames, kicks,
                   owner, leaves>>
    /\ UNCHANGED <<hub, cmd_lagged, lockVars, consoleVars, pureVars>>

\* mod.rs:83  Ok((msg, _src_addr)): the origin of the entry is not looked at.
DeliverTo(c, src_addr) == TRUE

\* handle(), branch 2 with Ok (mod.rs:81-89): the entry is written to the
\* socket; a failed write ends the loop.
BroadcastDelivery(c, write_ok) ==
    /\ phase[c] = "Active"
    /\ ~lagged[c]
    /\ rx[c] # <<>>
    /\ LET entry == Head(rx[c])
       IN /\ rx' = [rx EXCEPT ![c] = Tail(@)]
          /\ IF ~DeliverTo(c, entry.src)
             THEN UNCHANGED <<phase, socket>>
             ELSE IF write_ok
             THEN /\ socket' = [socket EXCEPT ![c] = Written(c, entry.msg, entry.src)]
                  /\ UNCHANGED phase
             ELSE /\ phase' = [phase EXCEPT ![c] = "Draining"]
                  /\ UNCHANGED socket
    /\ UNCHANGED <<pending, active_connections, connected_clients, chat_name,
                   rate_limiter, lagged, cmd_rx, now, frames, kicks, owner, leaves>>
    /\ UNCHANGED <<hub, cmd_lagged, lockVars, consoleVars, pureVars>>

BroadcastRecvError_Skips(c) ==
    /\ phase[c] = "Active"
    /\ lagged[c]
    /\ lagged' = [lagged EXCEPT ![c] = FALSE]
    /\ UNCHANGED <<phase, pending, active_connections, connected_clients, chat_name,
                   rate_limiter, rx, cmd_rx, socket, now, frames, kicks, owner,
                   leaves, hub, cmd_lagged, lockVars, consoleVars, pureVars>>

\* handle(), branch 2 with Err (mod.rs:90-93): the receiver lagged.
BroadcastRecvError(c) ==
    /\ phase[c] = "Active"
    /\ lagged[c]
    /\ phase' = [phase EXCEPT ![c] = "Draining"]
    /\ UNCHANGED <<pending, active_connections, connected_clients, chat_name,
                   rate_limiter, rx, lagged, cmd_rx, socket, now, frames, kicks,
                   owner, leaves>>
    /\ UNCHANGED <<hub, cmd_lagged, lockVars, consoleVars, pureVars>>

KickMatches_Any(name, username) == TRUE

\* mod.rs:99-100  if let Some(chat_name) = &self.chat_name
\*                   && chat_name == &username
KickMatches(name, username) == name # None /\ name = username

\* handle(), branch 3 with Ok(Kick(username)) (mod.rs:97-112): a command
\* naming the connection's own name is answered with a notice, whose write
\* may fail unnoticed, and ends the loop; any other command is dropped.
ServerCommand(c, write_ok) ==
    /\ phase[c] = "Active"
    /\ ~cmd_lagged[c]
    /\ cmd_rx[c] # <<>>
    /\ LET cmd == Head(cmd_rx[c])
       IN /\ cmd_rx' = [cmd_rx EXCEPT ![c] = Tail(@)]
          /\ IF KickMatches(chat_name[c], cmd.name)
             THEN /\ socket' = [socket EXCEPT ![c] =
                                  IF write_ok THEN Written(c, KickNotice, Server) ELSE @]
                  /\ phase' = [phase EXCEPT ![c] = "Draining"]
             ELSE UNCHANGED <<phase, socket>>
    /\ UNCHANGED <<pending, active_connections, connected_clients, chat_name,
                   rate_limiter, rx, lagged, now, frames, kicks, owner, leaves>>
    /\ UNCHANGED <<hub, cmd_lagged, lockVars, consoleVars, pureVars>>

\* handle(), branch 3 with Err (mod.rs:113-115): the receiver lagged and the
\* error is swallowed; the next receive yields the oldest command still held.
ServerCommandRecvError(c) ==
    /\ phase[c] = "Active"
    /\ cmd_lagged[c]
    /\ cmd_lagged' = [cmd_lagged EXCEPT ![c] = FALSE]
    /\ UNCHANGED <<phase, pending, active_connections, connected_clients, chat_name,
                   rate_limiter, rx, lagged, cmd_rx, socket, now, frames, kicks,
                   owner, leaves>>
    /\ UNCHANGED <<hub, lockVars, consoleVars, pureVars>>

\* mod.rs:133: handle() has one return, Ok(()), and no `?` before it.
handle_result == "Ok"

\* handle() after the loop, and the end of the spawned task (mod.rs:121-133,
\* main.rs:84-90): under the write lock the name is removed and the Leave
\* message sent; handle() returns Ok, the connection with its socket and
\* receivers is dropped and the task decrements the counter.  Nothing
\* suspends after the lock is acquired.
Cleanup(c) ==
    /\ phase[c] = "Draining"
    /\ IF chat_name[c] # None
       THEN LET name == chat_name[c]
                leave_message == try_new("Leave", name)
            IN /\ connected_clients' = connected_clients \ {name}
               /\ owner' = [owner EXCEPT ![name] = 0]
               /\ rx' = [Publish(rx, [msg |-> leave_message, src |-> c]) EXCEPT ![c] = <<>>]
               /\ lagged' = [PublishLag(rx) EXCEPT ![c] = FALSE]
               /\ leaves' = [leaves EXCEPT ![c] = Append(@, name)]
               /\ hub' = Append(hub, [msg |-> leave_message, src |-> c])
       ELSE /\ rx' = [rx EXCEPT ![c] = <<>>]
            /\ lagged' = [lagged EXCEPT ![c] = FALSE]
            /\ UNCHANGED <<connected_clients, owner, leaves, hub>>
    /\ cmd_rx' = [cmd_rx EXCEPT ![c] = <<>>]
    /\ cmd_lagged' = [cmd_lagged EXCEPT ![c] = FALSE]
    /\ chat_name' = [chat_name EXCEPT ![c] = None]
    /\ rate_limiter' = [rate_limiter EXCEPT ![c] = RateLimiter_new(0, 0, 0)]
    /\ socket' = [socket EXCEPT ![c] = <<>>]
    /\ active_connections' = ConnectionDone(active_connections)
    /\ phase' = [phase EXCEPT ![c] = "Closed"]
    /\ UNCHANGED <<pending, now, frames, kicks>>
    /\ UNCHANGED <<consoleVars, pureVars>>

\* ------------------------------------------------------------- system
\* The server within one rate-limit window: the clock stands still.
Next ==
    \/ AcceptCheck
    \/ AcceptSpawn
    \/ \E username \in Names : kicks < MaxKicks /\ handle_kick(username)
    \/ \E c \in Conns, message \in InboundMsgs, write_ok \in BOOLEAN :
            frames < MaxFrames /\ InboundFrame(c, message, write_ok)
    \/ \E c \in Conns : ReadFailed(c)
    \/ \E c \in Conns, write_ok \in BOOLEAN : BroadcastDelivery(c, write_ok)
    \/ \E c \in Conns : BroadcastRecvError(c)
    \/ \E c \in Conns, write_ok \in BOOLEAN : ServerCommand(c, write_ok)
    \/ \E c \in Conns : Cleanup(c) /\ UNCHANGED lockVars

Spec == Init /\ [][Next]_vars

\* The accept and inbound-frame paths with the clock running, over enough
\* frames to fill one window and start the next.
MaxFramesTimed == RATE_LIMIT_MESSAGES + 2

NextTimed ==
    \/ AcceptCheck
    \/ AcceptSpawn
    \/ Tick
    \/ \E c \in Conns, message \in InboundMsgs, write_ok \in BOOLEAN :
            frames < MaxFramesTimed /\ InboundFrame(c, message, write_ok)

SpecTimed == Init /\ [][NextTimed]_vars

\* ------------------------------------------------------------- admin line parser
\* server/src/input.rs.  A line is a sequence of glyphs: a glyph is one
\* whitespace character or a run of characters without whitespace, and
\* adjacent runs read as one word.
Whitespace == {" ", "\t"}

\* shared::commands::server, by the lines the tests of input.rs parse and by
\* the command list of section 6.
QUIT == {<<"/quit">>, <<"/q">>}
LIST == {<<"/list">>}
HELP == {<<"/help">>}
KICK == {<<"/kick">>}
RENAME == {<<"/rename">>}
BAN == {<<"/ban">>}
UNBAN == {<<"/unban">>}
BANLIST == {<<"/banlist">>}
Commands == QUIT \cup LIST \cup HELP \cup KICK \cup RENAME \cup BAN \cup UNBAN \cup BANLIST

\* Command::matches(cmd)
matches(command, cmd) == cmd \in command

\* Runs that start with '/', and runs that parse as an IpAddr.
SlashRuns == {"/quit", "/q", "/list", "/help", "/kick", "/rename", "/ban", "/unban",
              "/banlist", "/unknown"}
IpRuns == {"10.0.0.1"}
parse_IpAddr_ok(word) == Len(word) = 1 /\ word[1] \in IpRuns
starts_with_slash(text) == text # <<>> /\ text[1] \in SlashRuns

RECURSIVE trim_start(_)
trim_start(s) ==
    IF s # <<>> /\ Head(s) \in Whitespace THEN trim_start(Tail(s)) ELSE s

RECURSIVE trim_end(_)
trim_end(s) ==
    IF s # <<>> /\ s[Len(s)] \in Whitespace
    THEN trim_end(SubSeq(s, 1, Len(s) - 1))
    ELSE s

\* str::trim
trim(s) == trim_end(trim_start(s))

RECURSIVE split_from(_, _, _)
split_from(s, word, parts) ==
    LET closed == IF word = <<>> THEN parts ELSE Append(parts, word)
    IN IF s = <<>> THEN closed
       ELSE IF Head(s) \in Whitespace
       THEN split_from(Tail(s), <<>>, closed)
       ELSE split_from(Tail(s), Append(word, Head(s)), parts)

\* str::split_whitespace().collect()
split_whitespace(s) == split_from(s, <<>>, <<>>)

\* [&str]::join(sep)
RECURSIVE join(_, _)
join(parts, sep) ==
    IF parts = <<>> THEN <<>>
    ELSE IF Len(parts) = 1 THEN parts[1]
    ELSE parts[1] \o <<sep>> \o join(Tail(parts), sep)

\* Result<ServerUserInput, UserInputError>
ParsedOk(kind, args) == [ok |-> TRUE, kind |-> kind, args |-> args]
ParsedErr(e) == [ok |-> FALSE, kind |-> e, args |-> <<>>]

parse_kick_Unchecked(parts) ==
    ParsedOk("Kick", <<trim(join(Tail(parts), " "))>>)

\* input.rs:40-46: the words after the command, joined by one space, are the
\* username; an empty username is an error.
parse_kick(parts) ==
    LET username == trim(join(Tail(parts), " "))
    IN IF username = <<>>
       THEN ParsedErr("InvalidCommand")
       ELSE ParsedOk("Kick", <<username>>)

\* impl TryFrom<&str> for ServerUserInput
ServerUserInput_try_from(value) ==
    LET trimmed == trim(value)
        parts == split_whitespace(trimmed)
        cmd == IF parts = <<>> THEN <<>> ELSE parts[1]
        second == IF Len(parts) >= 2 THEN trim(parts[2]) ELSE <<>>
    IN IF matches(QUIT, cmd) THEN ParsedOk("Quit", <<>>)
       ELSE IF matches(LIST, cmd) THEN ParsedOk("ListUsers", <<>>)
       ELSE IF matches(HELP, cmd) THEN ParsedOk("Help", <<>>)
       ELSE IF matches(KICK, cmd) THEN parse_kick(parts)
       ELSE IF matches(RENAME, cmd)
       THEN IF Len(parts) # 3
            THEN ParsedErr("InvalidCommand")
            ELSE ParsedOk("Rename", <<parts[2], parts[3]>>)
       ELSE IF matches(BAN, cmd)
       THEN IF second = <<>> THEN ParsedErr("InvalidCommand")
            ELSE IF parse_IpAddr_ok(second) THEN ParsedOk("BanIp", <<second>>)
            ELSE ParsedOk("Ban", <<second>>)
       ELSE IF matches(UNBAN, cmd)
       THEN IF parse_IpAddr_ok(second)
            THEN ParsedOk("Unban", <<second>>)
            ELSE ParsedErr("InvalidCommand")
       ELSE IF matches(BANLIST, cmd) THEN ParsedOk("BanList", <<>>)
       ELSE IF starts_with_slash(trimmed) THEN ParsedErr("InvalidCommand")
       ELSE ParsedErr("InvalidCommand")

\* Lines of up to MaxLine glyphs over a small alphabet, and one line for
\* each of the other commands.
MaxLine == 4
LineGlyphs == Whitespace \cup {"/kick", "/unknown", "alice", "bob"}
LineInputs ==
    UNION {[1..k -> LineGlyphs] : k \in 0..MaxLine}
        \cup {<<"/quit">>, <<"/q">>, <<"/list">>, <<"/help">>, <<"/banlist">>,
              <<"/rename", " ", "alice", " ", "bob">>, <<"/rename", " ", "alice">>,
              <<"/ban", " ", "alice">>, <<"/ban", " ", "10.0.0.1">>, <<"/ban">>,
              <<"/unban", " ", "10.0.0.1">>, <<"/unban", " ", "alice">>,
              <<"hello", " ", "there">>}

InitParser ==
    /\ ServerInit
    /\ codec = Resting
    /\ parser \in {[stage |-> "line", line |-> l] : l \in LineInputs}

\* ServerUserInput::try_from(line)
Parse ==
    /\ parser.stage = "line"
    /\ parser' = [stage |-> "parsed", line |-> parser.line,
                  result |-> ServerUserInput_try_from(parser.line)]
    /\ UNCHANGED <<serverVars, lockVars, consoleVars, codec>>

NextParser == Parse

SpecParser == InitParser /\ [][NextParser]_vars

\* ------------------------------------------------------------- frame codec
\* chat_shared/src/message.rs.  A byte is a u8 and msg_len a u16.
U8_MAX == 255
U16_MAX == 65535
Bytes == 0..U8_MAX

\* MessageTypes: four named variants and Unknown(u8).
Variant(name) == [variant |-> name, val |-> 0]
Unknown(val) == [variant |-> "Unknown", val |-> val]

\* Option<Vec<u8>>
NoContent == [some |-> FALSE, data |-> <<>>]
Some(data) == [some |-> TRUE, data |-> data]

\* impl From<u8> for MessageTypes
MessageTypes_from(value) ==
    CASE value = 1 -> Variant("ChatMessage")
      [] value = 2 -> Variant("Join")
      [] value = 3 -> Variant("Leave")
      [] value = 4 -> Variant("UserRename")
      [] OTHER -> Unknown(value)

\* The match of message.rs:92-98.
MessageTypes_into(msg_type) ==
    CASE msg_type.variant = "ChatMessage" -> 1
      [] msg_type.variant = "Join" -> 2
      [] msg_type.variant = "Leave" -> 3
      [] msg_type.variant = "UserRename" -> 4
      [] msg_type.variant = "Unknown" -> msg_type.val

to_be_bytes(n) == <<n \div (U8_MAX + 1), n % (U8_MAX + 1)>>
from_be_bytes(hi, lo) == hi * (U8_MAX + 1) + lo

\* ChatMessage::try_new: msg_len is the content's length plus 3, or 1 without
\* content, and must fit a u16.  (checked_add cannot overflow a usize here:
\* a Vec is never that long.)
ChatMessage_try_new(msg_type, content) ==
    LET msg_len == IF content.some THEN Len(content.data) + 3 ELSE 1
    IN IF msg_len > U16_MAX
       THEN [ok |-> FALSE, err |-> "InvalidLength"]
       ELSE [ok |-> TRUE,
             value |-> [msg_len |-> msg_len, msg_type |-> msg_type, content |-> content]]

\* impl From<Vec<u8>> for ChatMessage: never fails.
ChatMessage_from(buffer) ==
    IF Len(buffer) = 0
    THEN [msg_len |-> 0, msg_type |-> Unknown(0), content |-> NoContent]
    ELSE IF Len(buffer) < 3
    THEN [msg_len |-> 3, msg_type |-> Unknown(0), content |-> NoContent]
    ELSE [msg_len |-> from_be_bytes(buffer[1], buffer[2]),
          msg_type |-> MessageTypes_from(buffer[3]),
          content |-> IF Len(buffer) > 1
                      THEN Some(SubSeq(buffer, 4, Len(buffer)))
                      ELSE NoContent]

\* impl From<ChatMessage> for Vec<u8>
Vec_from(message) ==
    to_be_bytes(message.msg_len)
        \o <<MessageTypes_into(message.msg_type)>>
        \o (IF message.content.some THEN message.content.data ELSE <<>>)

\* The codec's inputs: message types, contents and received buffers.
MaxPayload == 2
MaxBuffer == 4
PayloadBytes == {0, 104, U8_MAX}
WireBytes == {0, 1, 2, 5}
UnknownCodes == {0, 1, 5, U8_MAX}

SeqsUpTo(S, n) == UNION {[1..k -> S] : k \in 0..n}
Fill(n) == [i \in 1..n |-> 0]

MessageTypeInputs ==
    {Variant(t) : t \in {"ChatMessage", "Join", "Leave", "UserRename"}}
        \cup {Unknown(b) : b \in UnknownCodes}

\* Contents up to MaxPayload bytes, and contents around the longest msg_len.
ContentInputs ==
    {NoContent} \cup {Some(d) : d \in SeqsUpTo(PayloadBytes, MaxPayload)}
LongContentInputs == {Some(Fill(n)) : n \in (U16_MAX - 4)..U16_MAX}

BufferInputs == SeqsUpTo(WireBytes, MaxBuffer)

\* One input is drawn: the arguments of try_new, a buffer off the wire, or a
\* type byte.
InitCodec ==
    /\ ServerInit
    /\ parser = Resting
    /\ codec \in
         {[stage |-> "args", msg_type |-> t, content |-> d] :
                t \in MessageTypeInputs, d \in ContentInputs}
         \cup {[stage |-> "args", msg_type |-> Variant("ChatMessage"), content |-> d] :
                d \in LongContentInputs}
         \cup {[stage |-> "wire", buffer |-> b] : b \in BufferInputs}
         \cup {[stage |-> "byte", byte |-> b] : b \in Bytes}

\* ChatMessage::try_new(msg_type, content)
Construct ==
    /\ codec.stage = "args"
    /\ LET r == ChatMessage_try_new(codec.msg_type, codec.content)
       IN codec' = IF r.ok
                   THEN [stage |-> "message", msg_type |-> codec.msg_type,
                         content |-> codec.content, message |-> r.value]
                   ELSE [stage |-> "refused", msg_type |-> codec.msg_type,
                         content |-> codec.content, err |-> r.err]
    /\ UNCHANGED <<serverVars, lockVars, consoleVars, parser>>

\* Vec::<u8>::from(message)
Encode ==
    /\ codec.stage = "message"
    /\ codec' = [stage |-> "frame", message |-> codec.message,
                 buffer |-> Vec_from(codec.message)]
    /\ UNCHANGED <<serverVars, lockVars, consoleVars, parser>>

\* ChatMessage::from(buffer) of the bytes just encoded
Decode ==
    /\ codec.stage = "frame"
    /\ codec' = [stage |-> "decoded", message |-> codec.message,
                 buffer |-> codec.buffer, decoded |-> ChatMessage_from(codec.buffer)]
    /\ UNCHANGED <<serverVars, lockVars, consoleVars, parser>>

\* ChatMessage::from(buffer) of bytes off the wire
Receive ==
    /\ codec.stage = "wire"
    /\ codec' = [stage |-> "received", buffer |-> codec.buffer,
                 decoded |-> ChatMessage_from(codec.buffer)]
    /\ UNCHANGED <<serverVars, lockVars, consoleVars, parser>>

\* MessageTypes::from(byte)
TypeFromByte ==
    /\ codec.stage = "byte"
    /\ codec' = [stage |-> "type", byte |-> codec.byte,
                 msg_type |-> MessageTypes_from(codec.byte)]
    /\ UNCHANGED <<serverVars, lockVars, consoleVars, parser>>

\* The type byte that is written for the type just decoded (message.rs:92-98)
ByteFromType ==
    /\ codec.stage = "type"
    /\ codec' = [stage |-> "retyped", byte |-> codec.byte, msg_type |-> codec.msg_type,
                 again |-> MessageTypes_into(codec.msg_type)]
    /\ UNCHANGED <<serverVars, lockVars, consoleVars, parser>>

NextCodec ==
    \/ Construct
    \/ Encode
    \/ Decode
    \/ Receive
    \/ TypeFromByte
    \/ ByteFromType

SpecCodec == InitCodec /\ [][NextCodec]_vars

\* ------------------------------------------------------------- admin console
\* accept() errors and console lines that are not /kick, as far as followed.
MaxAcceptErrors == 1
MaxAdminLines == 1

AfterAcceptError_Return(running) == FALSE

\* main.rs:93-95: the error is logged and the loop goes on.
AfterAcceptError(running) == running

\* ChatServer::run, accept branch with Err (main.rs:93-95).
AcceptFailed ==
    /\ listening
    /\ pending = 0
    /\ accept_errors < MaxAcceptErrors
    /\ accept_errors' = accept_errors + 1
    /\ listening' = AfterAcceptError(listening)
    /\ UNCHANGED <<serverVars, lockVars, admin_lines, pureVars>>

handle_list_users_Cleared(clients) == {}

\* ChatServer::handle_list_users (main.rs:137-148): the names are read under
\* the shared lock and logged; the registry is as it was.
handle_list_users(clients) == clients

\* The registry key a parsed name stands for: the names of the registry are
\* single words.
RegistryKey(username) == IF Len(username) = 1 THEN username[1] ELSE None

\* Lines the console hands to run().  main.rs has arms for Quit, ListUsers,
\* Kick, Help and Err only.
AdminLineInputs ==
    {<<"/quit">>, <<"/list">>, <<"/help">>, <<"/kick", " ", "alice">>,
     <<"/kick", " ", "bob">>, <<"/kick">>, <<"/unknown">>, <<"hello">>, <<>>}

\* ChatServer::run, console branch with a line (main.rs:105-125).
AdminLine(line) ==
    /\ listening
    /\ pending = 0
    /\ LET input == ServerUserInput_try_from(line)
       IN IF input.ok /\ input.kind = "Kick"
          THEN handle_kick(RegistryKey(input.args[1]))
          ELSE /\ admin_lines < MaxAdminLines
               /\ admin_lines' = admin_lines + 1
               /\ IF input.ok /\ input.kind = "Quit"
                  THEN /\ listening' = FALSE
                       /\ UNCHANGED connected_clients
                  ELSE IF input.ok /\ input.kind = "ListUsers"
                  THEN /\ connected_clients' = handle_list_users(connected_clients)
                       /\ UNCHANGED listening
                  ELSE IF input.ok /\ input.kind = "Help"
                  THEN UNCHANGED <<listening, connected_clients>>
                  ELSE IF ~input.ok
                  THEN UNCHANGED <<listening, connected_clients>>
                  ELSE FALSE
               /\ UNCHANGED <<phase, pending, active_connections, chat_name,
                              rate_limiter, rx, lagged, cmd_rx, cmd_lagged, socket,
                              now, frames, kicks, owner, leaves, hub, lockVars,
                              accept_errors, pureVars>>

\* ChatServer::run, console branch at end of input (main.rs:126-130).
ConsoleClosed ==
    /\ listening
    /\ pending = 0
    /\ listening' = FALSE
    /\ UNCHANGED <<serverVars, lockVars, admin_lines, accept_errors, pureVars>>

\* The server with its console: run() returning ends the process, and with
\* it every connection task.  One console line or accept() error is followed.
MaxConsoleEvents == 1
ConsoleBudget == kicks + admin_lines + accept_errors < MaxConsoleEvents

NextAdmin ==
    \/ AcceptCheck
    \/ AcceptSpawn
    \/ ConsoleBudget /\ AcceptFailed
    \/ \E line \in AdminLineInputs : ConsoleBudget /\ AdminLine(line)
    \/ ConsoleClosed
    \/ \E c \in Conns, message \in InboundMsgs, write_ok \in BOOLEAN :
            listening /\ frames < MaxFrames /\ InboundFrame(c, message, write_ok)
    \/ \E c \in Conns : listening /\ ReadFailed(c)
    \/ \E c \in Conns, write_ok \in BOOLEAN : listening /\ BroadcastDelivery(c, write_ok)
    \/ \E c \in Conns : listening /\ BroadcastRecvError(c)
    \/ \E c \in Conns, write_ok \in BOOLEAN : listening /\ ServerCommand(c, write_ok)
    \/ \E c \in Conns : listening /\ Cleanup(c) /\ UNCHANGED lockVars

SpecAdmin == Init /\ [][NextAdmin]_vars

\* ------------------------------------------------------------- properties
\* Steps of one connection, told apart by what they change.
SpawnStep(c) == phase[c] = "Idle" /\ phase'[c] = "Active"
CleanupStep(c) == phase[c] = "Draining" /\ phase'[c] = "Closed"
RejectStep(c) == phase[c] = "Idle" /\ phase'[c] = "Rejected"
FrameStep(c) == phase[c] = "Active" /\ rate_limiter'[c] # rate_limiter[c]
DeliveryStep(c) == phase[c] = "Active" /\ rx[c] # <<>> /\ rx'[c] = Tail(rx[c])
CommandStep(c) == phase[c] = "Active" /\ cmd_rx[c] # <<>> /\ cmd_rx'[c] = Tail(cmd_rx[c])

\* Queue q2 is queue q with entry e sent to it once.
SentOnce(q, q2, e) ==
    \/ q2 = Append(q, e)
    \/ Len(q) >= BroadcastCapacity /\ q2 = Append(Tail(q), e)

LeaveEntry(c, name) == [msg |-> Msg("Leave", name), src |-> c]

\* A connection that leaves its loop with a name removes the name and sends
\* one Leave message carrying it, to every other subscriber.
NamedCleanup ==
    \A c \in Conns :
        CleanupStep(c) /\ chat_name[c] # None =>
            /\ chat_name[c] \notin connected_clients'
            /\ leaves'[c] = <<chat_name[c]>>
            /\ \A d \in Subscribers \ {c} :
                    SentOnce(rx[d], rx'[d], LeaveEntry(c, chat_name[c]))

\* No Leave message is sent at any other time.
LeaveOnlyOnCleanup ==
    \A c \in Conns :
        leaves'[c] # leaves[c] => CleanupStep(c) /\ chat_name[c] # None

\* The registry holds no name that a closed connection inserted.
NothingHeldForClosed ==
    \A c \in Conns :
        phase[c] = "Closed" => \A n \in connected_clients : owner[n] # c

\* C1: whenever a connection with a display name leaves its loop, the name
\* is removed from the registry and exactly one Leave message carrying it is
\* published; once the connection is Closed the registry holds no name on
\* its behalf.
C1_CleanupReleasesNames ==
    /\ []NothingHeldForClosed
    /\ [][NamedCleanup /\ LeaveOnlyOnCleanup]_vars

\* The part of C1 about the name held at exit alone.
C1_CleanupOfHeldName == [][NamedCleanup /\ LeaveOnlyOnCleanup]_vars

\* C2: a name is in the registry if and only if exactly one live (not
\* Closed) connection holds it as its display name.
C2_RegistryMatchesLiveNames ==
    \A n \in Names :
        n \in connected_clients <=>
            Cardinality({c \in Subscribers : chat_name[c] = n}) = 1

\* A delivery writes the entry to the socket when it came from another
\* connection (or the write fails and the loop ends) and writes nothing when
\* it came from this connection.
DeliverySkipsOwn ==
    \A c \in Conns :
        DeliveryStep(c) =>
            LET entry == Head(rx[c])
            IN IF entry.src = c
               THEN socket'[c] = socket[c] /\ phase'[c] = "Active"
               ELSE \/ socket'[c] = Append(socket[c], entry) /\ phase'[c] = "Active"
                    \/ socket'[c] = socket[c] /\ phase'[c] = "Draining"

\* No socket has been written an entry that its own connection published.
NoEcho ==
    \A c \in Conns : \A i \in DOMAIN socket[c] : socket[c][i].src # c

\* C3: a message published by connection A is written to the socket of the
\* other subscribers and never to A's own socket.
C3_NoEchoToSender == []NoEcho /\ [][DeliverySkipsOwn]_vars

\* C4: a Kick command closes exactly the connection that held the name when
\* the command was published, under every interleaving with join, rename
\* and leave: a connection that leaves its loop on a command is that
\* connection, and a command changes no connection's name and no registry
\* entry by itself.
C4_KickClosesOnlyItsTarget ==
    [][\A c \in Conns :
          CommandStep(c) =>
              /\ phase'[c] = "Draining" => Head(cmd_rx[c]).target = c
              /\ chat_name'[c] = chat_name[c]
              /\ connected_clients' = connected_clients]_vars

\* The other half of C4: the connection that held the name when the command
\* was published leaves its loop when it handles the command.
KickClosesItsTarget ==
    [][\A c \in Conns :
          CommandStep(c) /\ Head(cmd_rx[c]).target = c => phase'[c] = "Draining"]_vars

\* A dropped socket finds the counter at the maximum, leaves it unchanged
\* and starts no engine; an admitted one finds it below the maximum.
LimitDecidesAdmission ==
    /\ \A c \in Conns :
          RejectStep(c) =>
              /\ active_connections >= MaxClients
              /\ active_connections' = active_connections
              /\ \A d \in Conns : ~SpawnStep(d)
    /\ (pending = 0 /\ pending' # 0) => active_connections < MaxClients

\* C5: the engines started and not finished never exceed max_clients; a
\* socket accepted at or above the maximum is dropped, starts no engine and
\* leaves the counter unchanged.
C5_EnginesWithinLimit ==
    /\ [](Cardinality(Subscribers) <= MaxClients)
    /\ [][LimitDecidesAdmission]_vars

C5_Witness ==
    \E c \in Conns : phase[c] = "Rejected" /\ Cardinality(Subscribers) = MaxClients

\* The counter moves by one when an engine is spawned, by one when it ends,
\* and at no other step.
CountedOnce ==
    /\ \A c \in Conns : SpawnStep(c) => active_connections' = active_connections + 1
    /\ \A c \in Conns : CleanupStep(c) => active_connections' = active_connections - 1
    /\ active_connections' # active_connections =>
          \E c \in Conns : SpawnStep(c) \/ CleanupStep(c)

\* C6: the counter equals the number of admitted connections that are not
\* Closed, is incremented once per admission and decremented once per exit,
\* and never wraps below zero.
C6_CountMatchesEngines ==
    /\ [](active_connections = Cardinality(Subscribers))
    /\ [](active_connections \in 0..MaxClients)
    /\ [][CountedOnce]_vars

C6_Witness ==
    \E c, d \in Conns :
        phase[c] = "Closed" /\ phase[d] = "Active" /\ active_connections = 1

\* The Error frames a connection is answered with.
RateNotice == [msg |-> RateLimitNotice, src |-> Server]
NameNotice == [msg |-> NameTakenNotice, src |-> Server]

\* Nothing of the shared state and of the display names changes.
SharedStateUnchanged ==
    /\ connected_clients' = connected_clients
    /\ chat_name' = chat_name
    /\ owner' = owner
    /\ rx' = rx
    /\ lagged' = lagged

\* One frame through the limiter: a window that has passed starts anew at
\* the current time with this frame as its first; within a window the
\* frames up to RATE_LIMIT_MESSAGES are accepted and every later one is
\* rejected: answered with the notice, if anything is written, and without
\* effect on the registry, the names or the channel.
WindowCounts ==
    \A c \in Conns :
        FrameStep(c) =>
            LET rl == rate_limiter[c]
                passed == now > rl.start + RATE_LIMIT_WINDOW
                seen == IF passed THEN 1 ELSE rl.count + 1
            IN /\ rate_limiter'[c].start = (IF passed THEN now ELSE rl.start)
               /\ rate_limiter'[c].count = seen
               /\ seen <= RATE_LIMIT_MESSAGES => socket'[c] # Append(socket[c], RateNotice)
               /\ seen > RATE_LIMIT_MESSAGES =>
                     /\ socket'[c] \in {socket[c], Append(socket[c], RateNotice)}
                     /\ SharedStateUnchanged

\* C7: of N+1 frames within one window the first N are accepted and the
\* (N+1)-th is rejected; once the time is past start + W the limiter resets
\* its start to now and its count to 0, so the next frame is accepted.
C7_FixedWindow == [][WindowCounts]_vars

\* A connection was rejected a frame and, a window later, accepted one.
C7_Witness ==
    \E c \in Conns :
        /\ phase[c] = "Active"
        /\ \E i \in DOMAIN socket[c] : socket[c][i] = RateNotice
        /\ rate_limiter[c].count = 1
        /\ rate_limiter[c].start > 0

\* C8: a frame rejected by the rate limiter, whatever its type, changes
\* neither the registry nor a display name and publishes nothing; the
\* connection is answered with an Error frame and stays Active.
C8_RejectedFrameHasNoEffect ==
    [][\A c \in Conns, message \in InboundMsgs, write_ok \in BOOLEAN :
          /\ InboundFrame(c, message, write_ok)
          /\ rate_limiter'[c].count > RATE_LIMIT_MESSAGES
          => /\ SharedStateUnchanged
             /\ phase'[c] = "Active"
             /\ socket'[c] = (IF write_ok THEN Append(socket[c], RateNotice) ELSE socket[c])
             /\ RateNotice.msg.msg_type = "Error"]_vars

C8_Witness ==
    \E c \in Conns :
        /\ phase[c] = "Active"
        /\ rate_limiter[c].count > RATE_LIMIT_MESSAGES
        /\ socket[c] # <<>>
        /\ socket[c][Len(socket[c])] = RateNotice

\* C9: a Join of a name that is in the registry leaves the registry and
\* every display name unchanged, is answered with an Error frame, and
\* leaves every connection, the holder of the name included, in its phase.
C9_JoinOfTakenName ==
    [][\A c \in Conns, n \in Names, write_ok \in BOOLEAN :
          /\ InboundFrame(c, Msg("Join", n), write_ok)
          /\ n \in connected_clients
          => /\ SharedStateUnchanged
             /\ phase' = phase
             /\ phase'[c] = "Active"
             /\ \A d \in Conns \ {c} : socket'[d] = socket[d]
             /\ IF write_ok
                THEN /\ Len(socket'[c]) = Len(socket[c]) + 1
                     /\ SubSeq(socket'[c], 1, Len(socket[c])) = socket[c]
                     /\ socket'[c][Len(socket'[c])].msg.msg_type = "Error"
                ELSE socket'[c] = socket[c]]_vars

\* A connection without a name was refused the name another one holds.
C9_Witness ==
    \E c, d \in Conns :
        /\ c # d
        /\ phase[c] = "Active" /\ phase[d] = "Active"
        /\ chat_name[c] = None
        /\ chat_name[d] \in connected_clients
        /\ socket[c] # <<>>
        /\ socket[c][Len(socket[c])] = NameNotice

\* No two live connections hold the same name.
UniqueNames ==
    \A c, d \in Subscribers :
        c # d /\ chat_name[c] # None => chat_name[c] # chat_name[d]

\* The name of every live connection is in the registry.
NamesRegistered ==
    \A c \in Subscribers : chat_name[c] # None => chat_name[c] \in connected_clients

\* A UserRename to a taken name changes nothing; one that commits found the
\* new name free and in the same step removes the old name and inserts the
\* new one.
RenameCommits ==
    \A c \in Conns, n \in Names, write_ok \in BOOLEAN :
        InboundFrame(c, Msg("UserRename", n), write_ok) =>
            IF n \in connected_clients
            THEN SharedStateUnchanged
            ELSE chat_name'[c] # chat_name[c] =>
                    /\ chat_name'[c] = n
                    /\ connected_clients' = (connected_clients \ {chat_name[c]}) \cup {n}
                    /\ owner'[n] = c
                    /\ owner'[chat_name[c]] # c

C11_RoundTrip ==
    codec.stage = "decoded" =>
        /\ codec.decoded.msg_type = codec.message.msg_type
        /\ codec.decoded.content = codec.message.content

\* The length field of a frame, and the length of a payload (0 when absent).
DeclaredLength(buffer) == from_be_bytes(buffer[1], buffer[2])
PayloadLength(content) == IF content.some THEN Len(content.data) ELSE 0

\* C12: the length field of an encoded message is 1 plus the payload length,
\* and 1 when the payload is absent.
C12_DeclaredLength ==
    codec.stage = "frame" =>
        DeclaredLength(codec.buffer) = 1 + PayloadLength(codec.message.content)

\* A buffer too short for the length field and type byte, or shorter than
\* the length field plus the total_length it declares.
Short(buffer) ==
    \/ Len(buffer) < 3
    \/ Len(buffer) < 2 + DeclaredLength(buffer)

\* The outcome is the error e, not a message.
Reports(outcome, e) == "err" \in DOMAIN outcome /\ outcome.err = e

\* C13: decoding a buffer that holds fewer bytes than it declares reports
\* Truncated and produces no message.
C13_ShortBufferIsTruncated ==
    (codec.stage = "received" /\ Short(codec.buffer)) =>
        Reports(codec.decoded, "Truncated")

\* C14: construction fails with InvalidLength exactly when the payload is
\* longer than 65534 bytes, and the length of an accepted message fits the
\* 2-byte field.
C14_InvalidLengthBoundary ==
    /\ codec.stage \in {"message", "refused"} =>
          ((codec.stage = "refused" /\ codec.err = "InvalidLength")
              <=> PayloadLength(codec.content) > U16_MAX - 1)
    /\ codec.stage = "message" => codec.message.msg_len \in 0..U16_MAX

\* The type each byte stands for in the wire format.
WireType(b) ==
    CASE b = 1 -> Variant("ChatMessage")
      [] b = 2 -> Variant("Join")
      [] b = 3 -> Variant("Leave")
      [] b = 4 -> Variant("UserRename")
      [] b = 5 -> Variant("Error")
      [] OTHER -> Unknown(b)

\* C15: bytes 1..5 decode to ChatMessage, Join, Leave, UserRename, Error and
\* every other byte to Unknown(byte); the decoded type encodes to the byte.
C15_TypeByte ==
    /\ codec.stage \in {"type", "retyped"} => codec.msg_type = WireType(codec.byte)
    /\ codec.stage = "retyped" => codec.again = codec.byte

\* The second half of C15 alone: the type byte survives decode and encode.
TypeByteRoundTrip == codec.stage = "retyped" => codec.again = codec.byte

\* ------------------------------------------------------------- parser properties
\* The words of the line just parsed, and its result.
LineWords == split_whitespace(parser.line)
KickLine == parser.stage = "parsed" /\ LineWords # <<>> /\ LineWords[1] \in KICK

\* A text without leading or trailing whitespace.
Stripped(text) ==
    text # <<>> /\ text[1] \notin Whitespace /\ text[Len(text)] \notin Whitespace

\* C20: a kick line with at least one word after the command parses to
\* Kick(name), the name being those words without whitespace around them; a
\* kick line with nothing or only whitespace after the command, and a line
\* whose first word is an unrecognised command, parse to InvalidCommand.
C20_KickParsing ==
    /\ (KickLine /\ Len(LineWords) >= 2) =>
          /\ parser.result.ok
          /\ parser.result.kind = "Kick"
          /\ Len(parser.result.args) = 1
          /\ Stripped(parser.result.args[1])
          /\ split_whitespace(parser.result.args[1]) = Tail(LineWords)
    /\ (KickLine /\ Len(LineWords) = 1) =>
          /\ ~parser.result.ok
          /\ parser.result.kind = "InvalidCommand"
    /\ (parser.stage = "parsed" /\ LineWords # <<>> /\ LineWords[1] \notin Commands) =>
          /\ ~parser.result.ok
          /\ parser.result.kind = "InvalidCommand"

\* A kick line with whitespace before the command and a tab before the name
\* has been parsed to a Kick.
C20_Witness ==
    /\ parser.stage = "parsed"
    /\ parser.line = <<" ", "/kick", "\t", "alice">>
    /\ parser.result.kind = "Kick"

\* ------------------------------------------------------------- console properties
\* What the connections and the two channels hold.
ConnectionState ==
    <<phase, chat_name, rate_limiter, rx, lagged, cmd_rx, cmd_lagged, socket>>

\* A step in which accept() returned an error.
AcceptErrorStep == accept_errors' = accept_errors + 1

\* The loop is at accept() again with a socket waiting.
AwaitingAccept == listening /\ pending = 0 /\ \E c \in Conns : phase[c] = "Idle"

\* C16: an accept() error leaves the listener in its loop, able to admit
\* the next socket, and changes neither the connection counter, nor the
\* registry, nor any connection.
C16_AcceptErrorIsHarmless ==
    /\ [][AcceptErrorStep =>
            /\ listening'
            /\ UNCHANGED <<active_connections, connected_clients, ConnectionState>>
            /\ (AwaitingAccept => AwaitingAccept')]_vars
    /\ [](AwaitingAccept => ENABLED AcceptCheck)

\* After an accept() error, with a named connection running, the next
\* socket passed the limit check.
C16_Witness ==
    /\ accept_errors > 0
    /\ pending # 0
    /\ listening
    /\ \E c \in Conns : phase[c] = "Active" /\ chat_name[c] # None

\* The command a console line parses to.
Parsed(line) == ServerUserInput_try_from(line)
Inert(line) ==
    \/ ~Parsed(line).ok
    \/ Parsed(line).kind \in {"ListUsers", "Help"}

\* A step in which a console line other than /kick was handled.
AdminLineStep == admin_lines' = admin_lines + 1

\* Some connection's command receiver got a new entry.
CommandPublished == \E c \in Conns : Len(cmd_rx'[c]) > Len(cmd_rx[c])

\* C19: a line that does not parse, ListUsers and Help change nothing: the
\* registry, both channels, the connection counter, every connection and
\* the listener stay as they are.  Only a Kick line publishes a command and
\* only Quit or the end of input stops the listener.
C19_InertAdminLines ==
    /\ [][AdminLineStep =>
            \A line \in AdminLineInputs :
                (Inert(line) /\ AdminLine(line)) =>
                    UNCHANGED <<active_connections, connected_clients, ConnectionState,
                                pending, listening, hub>>]_vars
    /\ [][CommandPublished =>
            \E line \in AdminLineInputs :
                /\ Parsed(line).ok /\ Parsed(line).kind = "Kick"
                /\ AdminLine(line)]_vars
    /\ [][(listening /\ ~listening') =>
            \/ ConsoleClosed
            \/ \E line \in AdminLineInputs :
                /\ Parsed(line).ok /\ Parsed(line).kind = "Quit"
                /\ AdminLine(line)]_vars

\* A line that is no Kick and no Quit has been handled while a named
\* connection is running, and the listener is still running.
C19_Witness ==
    /\ admin_lines > 0
    /\ listening
    /\ connected_clients # {}
    /\ \E c \in Conns : phase[c] = "Active" /\ chat_name[c] # None

\* ------------------------------------------------------------- isolation and order
\* A connection leaves its loop, or finishes its cleanup.
LoopEnds(c) == phase[c] = "Active" /\ phase'[c] = "Draining"
Exits(c) == LoopEnds(c) \/ CleanupStep(c)

\* C17: a step in which a connection's loop ends (socket error, disconnect,
\* channel lag; a kick as well) or its cleanup runs changes the phase and
\* the name of no other connection, removes no other connection's name
\* from the registry and leaves the listener running; handle() returns Ok.
C17_FatalEventsStayLocal ==
    [][\A c \in Conns : Exits(c) =>
          /\ \A d \in Conns \ {c} :
                /\ phase'[d] = phase[d]
                /\ chat_name'[d] = chat_name[d]
                /\ (chat_name[d] \in connected_clients
                        => chat_name[d] \in connected_clients')
          /\ listening' = listening
          /\ pending' = pending
          /\ handle_result = "Ok"]_vars

\* A named connection was closed by no kick while another named connection
\* stays in its loop with its name registered.
C17_Witness ==
    \E c, d \in Conns :
        /\ c # d
        /\ kicks = 0
        /\ phase[c] = "Closed" /\ leaves[c] # <<>>
        /\ phase[d] = "Active" /\ chat_name[d] \in connected_clients
        /\ listening

RECURSIVE IsSubseq(_, _)
\* s can be had from t by leaving entries out.
IsSubseq(s, t) ==
    IF s = <<>> THEN TRUE
    ELSE IF t = <<>> THEN FALSE
    ELSE IF Head(s) = Head(t) THEN IsSubseq(Tail(s), Tail(t))
    ELSE IsSubseq(s, Tail(t))

FromChannel(e) == e.src # Server

\* The channel entries a connection has written, and those it still holds,
\* in that order.
Relayed(c) == SelectSeq(socket[c], FromChannel) \o rx[c]

\* The entry a frame read by c puts on the channel.
ChatEntry(c, message) == [msg |-> message, src |-> c]

\* C18: what a subscriber writes to its socket keeps the order of sending on
\* the channel; and the effects of a connection's frames come in the order
\* of the frames: the registry and the channel change only in the step that
\* reads a frame (or in a cleanup), a chat frame is sent in the very step
\* that reads it, and it is sent after everything sent before.
C18_OrderPreserved ==
    /\ [](\A c \in Conns : IsSubseq(Relayed(c), hub))
    /\ [][(hub' # hub \/ connected_clients' # connected_clients) =>
            \E c \in Conns : FrameStep(c) \/ CleanupStep(c)]_vars
    /\ [][\A c \in Conns : FrameStep(c) =>
            \/ hub' = hub
            \/ \E message \in InboundMsgs :
                    /\ message.msg_type = "ChatMessage"
                    /\ hub' = Append(hub, ChatEntry(c, message))]_vars

\* A connection has written two different channel entries.
C18_Witness ==
    \E c \in Conns :
        LET written == SelectSeq(socket[c], FromChannel)
        IN /\ Len(written) >= 2
           /\ written[1] # written[2]
           /\ Len(hub) >= 3

\* ------------------------------------------------------------- leaving the loop
\* The connections with enough chat traffic to overrun the receiver of a
\* connection that has joined: one frame more than the channel holds, after
\* the Join.
MaxFramesLag == BroadcastCapacity + 2
LagMsgs == {m \in InboundMsgs : m.msg_type \in {"ChatMessage", "Join"}}

NextLag ==
    \/ AcceptCheck
    \/ AcceptSpawn
    \/ \E c \in Conns, message \in LagMsgs, write_ok \in BOOLEAN :
            frames < MaxFramesLag /\ InboundFrame(c, message, write_ok)
    \/ \E c \in Conns : ReadFailed(c)
    \/ \E c \in Conns, write_ok \in BOOLEAN : BroadcastDelivery(c, write_ok)
    \/ \E c \in Conns : BroadcastRecvError(c)
    \/ \E c \in Conns : Cleanup(c) /\ UNCHANGED lockVars

SpecLag == Init /\ [][NextLag]_vars

\* A connection in its loop whose broadcast receiver has been overrun.
Behind(c) == phase[c] = "Active" /\ lagged[c]

\* C21: a connection whose broadcast receiver has lagged gets the error on
\* its next receive and leaves the loop on it: while it is still in the loop
\* the receive is due, it consumes no further entry and the lag is not
\* forgotten; its cleanup then removes its name and sends the Leave message.
\* (The channel is never closed while a connection lives: each holds a
\* sender.)
C21_HubLagEndsTheLoop ==
    /\ [](\A c \in Conns : Behind(c) => ENABLED BroadcastRecvError(c))
    /\ [][\A c \in Conns :
            /\ Behind(c) =>
                  /\ ~DeliveryStep(c)
                  /\ phase'[c] \in {"Active", "Draining"}
                  /\ phase'[c] = "Active" => lagged'[c]
            /\ BroadcastRecvError(c) => LoopEnds(c)
            /\ (CleanupStep(c) /\ lagged[c] /\ chat_name[c] # None) =>
                  /\ chat_name[c] \notin connected_clients'
                  /\ leaves'[c] = Append(leaves[c], chat_name[c])
                  /\ hub' = Append(hub, LeaveEntry(c, chat_name[c]))]_vars

\* A named connection has left its loop with its receiver overrun.
C21_Witness ==
    \E c \in Conns :
        /\ phase[c] = "Draining"
        /\ lagged[c]
        /\ chat_name[c] \in connected_clients

\* The server with enough /kick lines to overrun a command receiver: one
\* more than the command channel holds.
JoinMsgs == {m \in InboundMsgs : m.msg_type = "Join"}

NextCommands ==
    \/ AcceptCheck
    \/ AcceptSpawn
    \/ \E username \in Names : kicks <= CommandCapacity /\ handle_kick(username)
    \/ \E c \in Conns, message \in JoinMsgs, write_ok \in BOOLEAN :
            frames < MaxClients /\ InboundFrame(c, message, write_ok)
    \/ \E c \in Conns : ReadFailed(c)
    \/ \E c \in Conns, write_ok \in BOOLEAN : ServerCommand(c, write_ok)
    \/ \E c \in Conns : ServerCommandRecvError(c)
    \/ \E c \in Conns : Cleanup(c) /\ UNCHANGED lockVars

SpecCommands == Init /\ [][NextCommands]_vars

\* A connection in its loop whose command receiver has been overrun.
BehindOnCommands(c) == phase[c] = "Active" /\ cmd_lagged[c]

\* C22: a connection whose command receiver has lagged leaves the loop on
\* the receive that reports it, as for the broadcast channel: while it is
\* still in the loop the lag is not forgotten, so that no connection goes
\* on in its loop after a Kick command it never saw.
C22_CommandLagEndsTheLoop ==
    [][\A c \in Conns :
          BehindOnCommands(c) =>
              /\ phase'[c] \in {"Active", "Draining"}
              /\ phase'[c] = "Active" => cmd_lagged'[c]]_vars

\* Handling the frame makes the connection write an Error frame back.
Answers(c, message) ==
    process_message(c, message, RateLimiter_count(rate_limiter[c], now), TRUE).sock
        # socket[c]

\* C23: every failed socket read and every failed socket write ends the
\* loop of the connection that made it: a failed read, a failed write of a
\* broadcast entry or of the kick notice, and a failed write of the Error
\* frame that answers an inbound frame.
C23_FailedIoEndsTheLoop ==
    [][\A c \in Conns :
          /\ ReadFailed(c) => LoopEnds(c)
          /\ BroadcastDelivery(c, FALSE) => LoopEnds(c)
          /\ ServerCommand(c, FALSE) /\ KickMatches(chat_name[c], Head(cmd_rx[c]).name)
                => LoopEnds(c)
          /\ FrameStep(c) =>
                \A message \in InboundMsgs :
                    (Answers(c, message) /\ InboundFrame(c, message, FALSE))
                        => LoopEnds(c)]_vars

\* What a connection reads, writes and consumes.
Untouched(c) ==
    /\ socket'[c] = socket[c]
    /\ chat_name'[c] = chat_name[c]
    /\ rate_limiter'[c] = rate_limiter[c]
    /\ Len(rx'[c]) >= Len(rx[c])
    /\ Len(cmd_rx'[c]) >= Len(cmd_rx[c])

\* C24: a connection that has left its loop writes nothing to its socket,
\* handles no frame and consumes no broadcast entry and no command; its
\* one step is the cleanup, which runs once and closes it, and a closed
\* connection never changes again.
C24_DrainingOnlyCleansUp ==
    /\ [](\A c \in Conns : Len(leaves[c]) <= 1)
    /\ [][\A c \in Conns :
            /\ phase[c] = "Draining" =>
                  /\ phase'[c] \in {"Draining", "Closed"}
                  /\ ~CleanupStep(c) => Untouched(c) /\ leaves'[c] = leaves[c]
            /\ phase[c] = "Closed" =>
                  /\ phase'[c] = "Closed"
                  /\ Untouched(c)
                  /\ rx'[c] = rx[c] /\ cmd_rx'[c] = cmd_rx[c]
                  /\ leaves'[c] = leaves[c]]_vars

\* One connection is closed while another, out of its loop, still holds a
\* broadcast entry it will not deliver.
C24_Witness ==
    \E c, d \in Conns :
        /\ phase[c] = "Closed"
        /\ phase[d] = "Draining"
        /\ rx[d] # <<>>

\* ------------------------------------------------------------- kick
\* The connection takes from its command receiver a Kick naming its name.
Kicked(c) == CommandStep(c) /\ KickMatches(chat_name[c], Head(cmd_rx[c]).name)

\* The socket has one more frame, an Error frame composed by the server.
ErrorFrameWritten(c) ==
    /\ Len(socket'[c]) = Len(socket[c]) + 1
    /\ SubSeq(socket'[c], 1, Len(socket[c])) = socket[c]
    /\ socket'[c][Len(socket'[c])].msg.msg_type = "Error"
    /\ socket'[c][Len(socket'[c])].src = Server

\* C26: a connection that receives a Kick naming its current name is
\* written an Error frame and leaves the loop in that step, the name still
\* registered and no Leave message sent; the loop ends as well, with
\* nothing written, when the write fails.  The name is removed and the
\* Leave message sent afterwards, by the cleanup of the connection out of
\* its loop.
C26_KickOrder ==
    [][\A c \in Conns :
          /\ Kicked(c) =>
                /\ LoopEnds(c)
                /\ ErrorFrameWritten(c) \/ socket'[c] = socket[c]
                /\ ServerCommand(c, TRUE) => ErrorFrameWritten(c)
                /\ ServerCommand(c, FALSE) => socket'[c] = socket[c]
                /\ connected_clients' = connected_clients
                /\ chat_name[c] \in connected_clients'
                /\ hub' = hub /\ leaves' = leaves
          /\ leaves'[c] # leaves[c] =>
                /\ phase[c] = "Draining" /\ phase'[c] = "Closed"
                /\ chat_name[c] \notin connected_clients'
                /\ hub' = Append(hub, LeaveEntry(c, chat_name[c]))]_vars

\* A kicked connection, the notice written, is out of its loop with its
\* name still registered.
C26_Witness ==
    \E c \in Conns :
        /\ phase[c] = "Draining"
        /\ socket[c] # <<>>
        /\ socket[c][Len(socket[c])] = [msg |-> KickNotice, src |-> Server]
        /\ chat_name[c] \in connected_clients

\* C27: a Kick taken by a connection without a name, or with a name other
\* than the one the command carries, leaves the connection in its loop and
\* writes nothing to it; and the cleanup of a connection without a name
\* removes nothing from the registry and sends no Leave message.
C27_KickNeedsTheName ==
    [][\A c \in Conns :
          /\ (CommandStep(c)
                /\ (chat_name[c] = None \/ chat_name[c] # Head(cmd_rx[c]).name)) =>
                /\ phase'[c] = "Active"
                /\ socket'[c] = socket[c]
          /\ (CleanupStep(c) /\ chat_name[c] = None) =>
                /\ connected_clients' = connected_clients
                /\ hub' = hub /\ leaves' = leaves
                /\ \A d \in Conns \ {c} : rx'[d] = rx[d]]_vars

\* A connection without a name, admitted before a connection that has
\* since been kicked, has taken the command and is still in its loop.
C27_Witness ==
    \E c, d \in Conns :
        /\ c < d
        /\ phase[c] = "Active" /\ chat_name[c] = None /\ cmd_rx[c] = <<>>
        /\ phase[d] = "Draining"
        /\ socket[d] # <<>>
        /\ socket[d][Len(socket[d])].msg = KickNotice

\* ------------------------------------------------------------- what ends the loop
\* process_message returns an error for the frame.
Refused(c, message) ==
    process_message(c, message, RateLimiter_count(rate_limiter[c], now), TRUE).res
        # "Ok"

\* C28: a frame that was read is handled and the connection stays in its
\* loop, whatever process_message returns for it; the loop ends only with
\* a failed read or a disconnect, a failed write of a broadcast entry, an
\* error of the broadcast receiver, or a Kick naming the connection.
C28_OnlyFatalEventsEndTheLoop ==
    [][\A c \in Conns :
          /\ FrameStep(c) =>
                /\ phase'[c] = "Active"
                /\ \A message \in InboundMsgs, write_ok \in BOOLEAN :
                      (Refused(c, message) /\ InboundFrame(c, message, write_ok))
                          => phase'[c] = "Active"
          /\ LoopEnds(c) =>
                \/ ReadFailed(c)
                \/ BroadcastDelivery(c, FALSE)
                \/ BroadcastRecvError(c)
                \/ Kicked(c)]_vars

\* A connection refused twice in a row is still in its loop.
C28_Witness ==
    \E c \in Conns :
        /\ phase[c] = "Active"
        /\ socket[c] = <<NameNotice, NameNotice>>

\* ------------------------------------------------------------- the kick handler
\* A step of handle_kick.
KickHandled == kicks' = kicks + 1

\* Every subscriber's command receiver has the command as its newest entry.
Commanded(username) ==
    \A c \in Subscribers :
        /\ cmd_rx'[c] # <<>>
        /\ cmd_rx'[c][Len(cmd_rx'[c])].name = username

\* C29: handle_kick sends a Kick command only for a name the registry holds
\* when it looks; for any other name it sends nothing and changes nothing;
\* and it never removes the name itself, nor touches any connection.
C29_KickOnlyForRegisteredNames ==
    [][KickHandled =>
          /\ connected_clients' = connected_clients
          /\ UNCHANGED <<phase, chat_name, active_connections, rx, lagged, socket,
                         hub, leaves, owner>>
          /\ CommandPublished => \E username \in connected_clients : Commanded(username)
          /\ \A username \in Names :
                handle_kick(username) =>
                    IF username \in connected_clients
                    THEN Commanded(username)
                    ELSE UNCHANGED <<cmd_rx, cmd_lagged>>]_vars

\* A command has been sent and its name is still registered.
C29_Witness ==
    /\ kicks > 0
    /\ \E c \in Conns :
          /\ cmd_rx[c] # <<>>
          /\ Head(cmd_rx[c]).name \in connected_clients

\* ------------------------------------------------------------- the registry lock
\* RwLock: an exclusive guard needs the lock free, a shared one needs no
\* exclusive holder.
CanWrite(l) == l.writer = 0 /\ l.readers = 0
CanRead(l) == l.writer = 0

drop_clients_Kept(l) == l

\* main.rs:153  drop(clients)
drop_clients(l) == [l EXCEPT !.readers = @ - 1]

\* handle_kick, main.rs:151: the read guard is taken.
KickLock(username) ==
    /\ listening
    /\ pending = 0
    /\ admin.at = "idle"
    /\ CanRead(registry_lock)
    /\ registry_lock' = [registry_lock EXCEPT !.readers = @ + 1]
    /\ admin' = [at |-> "locked", username |-> username]
    /\ kicks' = kicks + 1
    /\ UNCHANGED <<phase, pending, active_connections, connected_clients, chat_name,
                   rate_limiter, rx, lagged, cmd_rx, cmd_lagged, socket, now, frames,
                   owner, leaves, hub, consoleVars, pureVars>>

\* handle_kick, main.rs:152-153 and 158-160: the name is looked up under the
\* guard; when it is there the guard is dropped before the command is sent,
\* otherwise the error is logged and the guard dropped as the function ends.
KickDecide ==
    /\ admin.at = "locked"
    /\ IF contains(connected_clients, admin.username)
       THEN /\ registry_lock' = drop_clients(registry_lock)
            /\ admin' = [admin EXCEPT !.at = "send"]
       ELSE /\ registry_lock' = [registry_lock EXCEPT !.readers = 0]
            /\ admin' = Idle
    /\ UNCHANGED <<serverVars, consoleVars, pureVars>>

\* handle_kick, main.rs:154-157: the command is sent; whatever guard is
\* still held goes as the function ends.
KickSend ==
    /\ admin.at = "send"
    /\ cmd_rx' = PublishCommand(cmd_rx, Kick(admin.username))
    /\ cmd_lagged' = PublishCommandLag(cmd_rx)
    /\ registry_lock' = [registry_lock EXCEPT !.readers = 0]
    /\ admin' = Idle
    /\ UNCHANGED <<phase, pending, active_connections, connected_clients, chat_name,
                   rate_limiter, rx, lagged, socket, now, frames, kicks, owner,
                   leaves, hub, consoleVars, pureVars>>

\* handle() after the loop, mod.rs:122: the write guard is awaited and taken.
CleanupLock(c) ==
    /\ phase[c] = "Draining"
    /\ chat_name[c] # None
    /\ CanWrite(registry_lock)
    /\ registry_lock' = [registry_lock EXCEPT !.writer = c]
    /\ UNCHANGED <<serverVars, admin, consoleVars, pureVars>>

\* mod.rs:123-133: the rest of the cleanup under the guard, which is dropped
\* at the end of the block.
CleanupLocked(c) ==
    /\ registry_lock.writer = c
    /\ Cleanup(c)
    /\ registry_lock' = [registry_lock EXCEPT !.writer = 0]
    /\ UNCHANGED admin

\* mod.rs:121: without a name the lock is not taken.
CleanupUnnamed(c) ==
    /\ chat_name[c] = None
    /\ Cleanup(c)
    /\ UNCHANGED lockVars

\* A Join or UserRename takes the exclusive guard for its check and its
\* insert and lets go of it before answering (section 5).
NeedsRegistry(message) == message.msg_type \in {"Join", "UserRename"}

\* The server with the steps of handle_kick and of the cleanup taken one
\* guard at a time.  The listener accepts nothing while it is in handle_kick.
NextLock ==
    \/ admin.at = "idle" /\ AcceptCheck
    \/ admin.at = "idle" /\ AcceptSpawn
    \/ \E username \in Names : kicks < MaxKicks /\ KickLock(username)
    \/ KickDecide
    \/ KickSend
    \/ \E c \in Conns, message \in InboundMsgs, write_ok \in BOOLEAN :
            /\ frames < MaxClients
            /\ NeedsRegistry(message) => CanWrite(registry_lock)
            /\ InboundFrame(c, message, write_ok)
    \/ \E c \in Conns : ReadFailed(c)
    \/ \E c \in Conns, write_ok \in BOOLEAN : BroadcastDelivery(c, write_ok)
    \/ \E c \in Conns, write_ok \in BOOLEAN : ServerCommand(c, write_ok)
    \/ \E c \in Conns : CleanupLock(c)
    \/ \E c \in Conns : CleanupLocked(c)
    \/ \E c \in Conns : CleanupUnnamed(c)

SpecLock == Init /\ [][NextLock]_vars

\* C25: whoever holds the registry lock is not at a socket: a connection
\* holds it only out of its loop, during its cleanup, and its socket is
\* neither read nor written while it does; handle_kick holds its read guard
\* only for the lookup, the listener accepting no socket meanwhile, and has
\* let go of it in the state from which the Kick command is sent.
C25_NoLockAcrossSocketIo ==
    /\ [](\A c \in Conns : registry_lock.writer = c => phase[c] = "Draining")
    /\ [](registry_lock.readers > 0 => admin.at = "locked")
    /\ [][/\ \A c \in Conns :
                registry_lock.writer = c =>
                    \/ CleanupStep(c)
                    \/ Untouched(c) /\ phase'[c] = phase[c]
          /\ CommandPublished => registry_lock.readers = 0
          /\ registry_lock.readers > 0 =>
                /\ pending' = pending
                /\ \A c \in Conns : ~SpawnStep(c) /\ ~RejectStep(c)]_vars

\* handle_kick has dropped its guard and is about to send the command while
\* the cleanup of a connection holds the lock exclusively.
C25_Witness ==
    /\ admin.at = "send"
    /\ registry_lock.readers = 0
    /\ registry_lock.writer # 0

\* ------------------------------------------------------------- capacity
\* The server with every connection task scheduled fairly: a task that has
\* left its loop runs to its end (mod.rs:119-133, main.rs:84-90).
NextLive ==
    \/ AcceptCheck
    \/ AcceptSpawn
    \/ \E c \in Conns, message \in JoinMsgs, write_ok \in BOOLEAN :
            frames < MaxClients /\ InboundFrame(c, message, write_ok)
    \/ \E c \in Conns : ReadFailed(c)
    \/ \E c \in Conns : Cleanup(c) /\ UNCHANGED lockVars

TaskRuns(c) == WF_vars(Cleanup(c) /\ UNCHANGED lockVars)

SpecLive == Init /\ [][NextLive]_vars /\ \A c \in Conns : TaskRuns(c)

\* The counter is at the limit and a connection has left its loop.
FullAndLeaving == active_connections = MaxClients /\ \E c \in Conns : phase[c] = "Draining"

\* The limit check of a socket: it is admitted or turned away.
CheckedStep(c) == phase[c] = "Idle" /\ (pending' = c \/ RejectStep(c)) /\ pending = 0

\* C30: when the counter is at the limit and a connection has left its
\* loop, the counter eventually drops below the limit; a socket checked
\* while the counter is below the limit is admitted and then gets its
\* connection; a socket turned away changes the counter neither then nor
\* later.
C30_CapacityReleased ==
    /\ FullAndLeaving ~> active_connections < MaxClients
    /\ [][\A c \in Conns :
            /\ (CheckedStep(c) /\ active_connections < MaxClients) => pending' = c
            /\ (pending = c /\ pending' # c) =>
                  /\ phase'[c] = "Active"
                  /\ active_connections' = active_connections + 1
            /\ RejectStep(c) => active_connections' = active_connections
            /\ phase[c] = "Rejected" =>
                  /\ phase'[c] = "Rejected"
                  /\ pending' # c]_vars

\* More connections have been admitted than the limit allows at a time.
C30_Witness ==
    /\ Cardinality({c \in Conns : phase[c] \in {"Active", "Draining", "Closed"}})
            > MaxClients
    /\ active_connections = MaxClients

====
